---- MODULE Spec2Model ----
(***************************************************************************)
(* CreateSG: NBT structure generation for Create mod Mechanical Arms and    *)
(* Chain Conveyors (src/CreateSG.py).                                       *)
(*                                                                          *)
(* Python objects that can be aliased are kept in heaps:                    *)
(*   heap  - the coordinate containers (Python lists of ints), the caller's *)
(*           and the ones the program allocates with list(...);             *)
(*   lists - the NBT list tags InteractionPoints / Connections, one per     *)
(*           template built by a factory;                                   *)
(*   muts  - the ArmNBT / ConveyorNBT instances, holding references into    *)
(*           heap (self.origin) and lists (self.nbt).                       *)
(* last is the most recent call and the exception it raised, gen the frame  *)
(* of a generate_connected_conveyors call, writes the log of completed file *)
(* writes, disk the files by name, rel a call of calculate_relative_pos.    *)
(* Strings are sequences of one-character strings.                          *)
(***************************************************************************)
EXTENDS Integers, Sequences, FiniteSets, TLC

VARIABLES heap, lists, muts, last, gen, writes, disk, rel

vars == <<heap, lists, muts, last, gen, writes, disk, rel>>

----------------------------------------------------------------------------
\* Bounds of the model.

\* most interaction points appended to one arm
MaxPoints == 2
\* most entries in one conveyor's Connections list (add_connection model)
MaxConns == 3
\* longest sequence handed to one add_connection / generate call
MaxBatch == 2
\* most mutator instances alive in the aliasing model
MaxMutators == 2
\* most append calls, over all instances, in the aliasing model
MaxCalls == 2
\* coordinate components of the pure-function model are -MaxCoord..MaxCoord
MaxCoord == 1
\* longest argument sequence of the pure-function model
MaxLen == 3

----------------------------------------------------------------------------
\* Values.

\* the Python value None as an origin argument: a reference to no container
None == 0

\* absolute world positions used as inputs of the object models
Coords == { <<0, 0, 0>>, <<1, 1, 1>>, <<3, 2, 0>>, <<-100, 0, 50>> }

\* a smaller input set for the models that interleave several instances
FewCoords == { <<0, 0, 0>>, <<3, 2, 0>> }

TypeStrs == { "create:depot", "create:belt" }

Modes == { "TAKE", "DEPOSIT", "INVALID", "take", "" }

SeqsUpTo(S, n) == UNION { [1..k -> S] : k \in 0..n }

Min(a, b) == IF a <= b THEN a ELSE b

----------------------------------------------------------------------------
\* calculate_relative_pos: [p - o for p, o in zip(pos, origin)].
\* zip stops at the shorter argument and never raises.

calculate_relative_pos_swapped(pos, origin) ==
    [i \in 1..Min(Len(pos), Len(origin)) |-> origin[i] - pos[i]]

calculate_relative_pos(pos, origin) ==
    [i \in 1..Min(Len(pos), Len(origin)) |-> pos[i] - origin[i]]

\* The only exit of calculate_relative_pos is its return statement.
calculate_relative_pos_raises(pos, origin) == FALSE

----------------------------------------------------------------------------
\* Arguments and the heap of coordinate containers.

\* an origin argument: absent (the default None) or a triple the caller built
OriginArgs(S) ==
    { [given |-> FALSE, v |-> <<>>] } \cup { [given |-> TRUE, v |-> c] : c \in S }

\* The caller builds the argument's container before the call.
Pass(h, arg) ==
    IF arg.given
    THEN [heap |-> Append(h, [owner |-> "caller", v |-> arg.v]), ref |-> Len(h) + 1]
    ELSE [heap |-> h, ref |-> None]

\* Python truth value of an origin argument: None and empty sequences are false.
Truthy(h, o) == o # None /\ Len(h[o].v) > 0

\* self.origin = origin itself: the caller's container, not a copy
BaseNBT_init_alias(h, o) ==
    IF Truthy(h, o)
    THEN [heap |-> h, ref |-> o]
    ELSE [heap |-> Append(h, [owner |-> "program", v |-> <<0, 0, 0>>]),
          ref |-> Len(h) + 1]

\* BaseNBT.__init__: self.origin = list(origin) if origin else [0, 0, 0]
\* list(...) allocates a new container holding the argument's current items.
BaseNBT_init(h, o) ==
    [heap |-> Append(h, [owner |-> "program",
                         v |-> IF Truthy(h, o) THEN h[o].v ELSE <<0, 0, 0>>]),
     ref |-> Len(h) + 1]

\* the value a mutator is constructed with, as the caller sees it
GivenOrigin(arg) == IF arg.given /\ Len(arg.v) > 0 THEN arg.v ELSE <<0, 0, 0>>

----------------------------------------------------------------------------
\* Template factories. Each template is the fixed tree of its block kind with
\* one list tag that the mutators append to; the fixed fields are kept as the
\* block id and DataVersion, the list tag as items.

DataVersion == 3955

ArmTemplate ==
    [id |-> "create:mechanical_arm", DataVersion |-> DataVersion,
     tag |-> "InteractionPoints", items |-> <<>>]

ConveyorTemplate ==
    [id |-> "create:chain_conveyor", DataVersion |-> DataVersion,
     tag |-> "Connections", items |-> <<>>]

\* a factory that hands out one module-level template object to every caller
create_arm_template_shared(ls) ==
    IF \E r \in 1..Len(ls) : ls[r].tag = "InteractionPoints"
    THEN [lists |-> ls,
          ref |-> CHOOSE r \in 1..Len(ls) : ls[r].tag = "InteractionPoints"]
    ELSE [lists |-> Append(ls, ArmTemplate), ref |-> Len(ls) + 1]

\* create_arm_template: every call builds a new nbtlib.File
create_arm_template(ls) ==
    [lists |-> Append(ls, ArmTemplate), ref |-> Len(ls) + 1]

create_conveyor_template_shared(ls) ==
    IF \E r \in 1..Len(ls) : ls[r].tag = "Connections"
    THEN [lists |-> ls,
          ref |-> CHOOSE r \in 1..Len(ls) : ls[r].tag = "Connections"]
    ELSE [lists |-> Append(ls, ConveyorTemplate), ref |-> Len(ls) + 1]

\* create_conveyor_template: every call builds a new nbtlib.File
create_conveyor_template(ls) ==
    [lists |-> Append(ls, ConveyorTemplate), ref |-> Len(ls) + 1]

----------------------------------------------------------------------------
\* Mutator instances.

\* ArmNBT(origin=arg) / ConveyorNBT(origin=arg): BaseNBT.__init__ stores the
\* origin and the template of the subclass. passed, given and calls are
\* history fields: the container handed to the constructor, its value at
\* that moment, and the arguments of the append calls made through this
\* instance.
NewMutator(kind, originRef, nbtRef, passed, given) ==
    [kind |-> kind, origin |-> originRef, nbt |-> nbtRef,
     passed |-> passed, given |-> given, calls |-> <<>>]

\* arg is a record of the call's arguments
Call(op, m, arg, exc) == [op |-> op, m |-> m, arg |-> arg, exc |-> exc]

ConstructArm(arg) ==
    LET a == Pass(heap, arg)
        b == BaseNBT_init(a.heap, a.ref)
        t == create_arm_template(lists)
    IN  /\ gen.pc = "idle"
        /\ heap' = b.heap
        /\ lists' = t.lists
        /\ muts' = Append(muts, NewMutator("arm", b.ref, t.ref, a.ref, GivenOrigin(arg)))
        /\ last' = Call("ArmNBT", Len(muts) + 1, arg, "none")
        /\ UNCHANGED <<gen, writes, disk, rel>>

ConstructConveyor(arg) ==
    LET a == Pass(heap, arg)
        b == BaseNBT_init(a.heap, a.ref)
        t == create_conveyor_template(lists)
    IN  /\ gen.pc = "idle"
        /\ heap' = b.heap
        /\ lists' = t.lists
        /\ muts' = Append(muts,
                      NewMutator("conveyor", b.ref, t.ref, a.ref, GivenOrigin(arg)))
        /\ last' = Call("ConveyorNBT", Len(muts) + 1, arg, "none")
        /\ UNCHANGED <<gen, writes, disk, rel>>

\* the items of instance m's list tag
Items(m) == lists[muts[m].nbt].items

\* the value of instance m's self.origin
Origin(m) == heap[muts[m].origin].v

----------------------------------------------------------------------------
\* ArmNBT.add_interaction_point

ValidModeAny(mode) == TRUE

\* not (mode not in ['TAKE', 'DEPOSIT'])
ValidMode(mode) == mode \in { "TAKE", "DEPOSIT" }

InteractionPoint(type_str, mode, relative_pos) ==
    [Type |-> type_str, Mode |-> mode, Pos |-> relative_pos]

PrependPoint(items, point) == <<point>> \o items

\* InteractionPoints.append(interaction_point)
AppendPoint(items, point) == Append(items, point)

add_interaction_point(m, type_str, mode, pos) ==
    LET arg == [type |-> type_str, mode |-> mode, pos |-> pos]
    IN  /\ muts[m].kind = "arm"
        /\ IF ~ValidMode(mode)
           THEN /\ last' = Call("add_interaction_point", m, arg, "ValueError")
                /\ UNCHANGED <<heap, lists, muts>>
           ELSE LET relative_pos == calculate_relative_pos(pos, Origin(m))
                    point == InteractionPoint(type_str, mode, relative_pos)
                IN  /\ lists' = [lists EXCEPT ![muts[m].nbt].items =
                                    AppendPoint(@, point)]
                    /\ muts' = [muts EXCEPT ![m].calls = Append(@, arg)]
                    /\ last' = Call("add_interaction_point", m, arg, "none")
                    /\ UNCHANGED heap
        /\ UNCHANGED <<gen, writes, disk, rel>>

----------------------------------------------------------------------------
\* ConveyorNBT.add_connection

\* an argument of add_connection: one triple, or a list of triples
OneCoord(c) == [shape |-> "coord", c |-> c, cs |-> <<>>]

CoordList(cs) == [shape |-> "list", c |-> <<>>, cs |-> cs]

ConnArgs(S, n) ==
    { OneCoord(c) : c \in S } \cup { CoordList(cs) : cs \in SeqsUpTo(S, n) }

\* connection_pos[0] exists (otherwise the subscript raises IndexError)
HasFirst(inp) == IF inp.shape = "coord" THEN Len(inp.c) > 0 ELSE Len(inp.cs) > 0

\* isinstance(connection_pos[0], (list, tuple)): the first element of a list
\* of triples is a sequence, the first element of a triple is an int
FirstIsSequence(inp) == inp.shape = "list"

PositionsFirstOnly(inp) ==
    IF FirstIsSequence(inp) THEN <<inp.cs[1]>> ELSE <<inp.c>>

\* positions = connection_pos if isinstance(...) else [connection_pos]
Positions(inp) == IF FirstIsSequence(inp) THEN inp.cs ELSE <<inp.c>>

\* the loop of add_connection: one relative entry per position, in order
AppendConnections(items, positions, origin) ==
    items \o [i \in 1..Len(positions) |-> calculate_relative_pos(positions[i], origin)]

\* the positions a call hands over, as the caller means them
Meant(inp) == IF inp.shape = "coord" THEN <<inp.c>> ELSE inp.cs

\* the effect of m.add_connection(inp) on the list tags and on m's history
AddedLists(m, inp) ==
    [lists EXCEPT ![muts[m].nbt].items =
        AppendConnections(@, Positions(inp), Origin(m))]

AddedCalls(ms, m, inp) == [ms EXCEPT ![m].calls = @ \o Meant(inp)]

add_connection(m, inp) ==
    /\ muts[m].kind = "conveyor"
    /\ IF ~HasFirst(inp)
       THEN /\ last' = Call("add_connection", m, inp, "IndexError")
            /\ UNCHANGED <<heap, lists, muts>>
       ELSE /\ lists' = AddedLists(m, inp)
            /\ muts' = AddedCalls(muts, m, inp)
            /\ last' = Call("add_connection", m, inp, "none")
            /\ UNCHANGED heap
    /\ UNCHANGED <<gen, writes, disk, rel>>

\* The caller stores other coordinates into a container it owns.
CallerMutate(b, v) ==
    /\ heap[b].owner = "caller"
    /\ heap[b].v # v
    /\ heap' = [heap EXCEPT ![b].v = v]
    /\ last' = Call("caller_store", 0, [v |-> v], "none")
    /\ UNCHANGED <<lists, muts, gen, writes, disk, rel>>

----------------------------------------------------------------------------
\* File names: str.replace and the f-string of the loop index.

Ext == <<".", "n", "b", "t">>

MainSuffix == <<"_", "m", "a", "i", "n">> \o Ext

Digit(d) == <<"0", "1", "2", "3", "4", "5", "6", "7", "8", "9">>[d + 1]

RECURSIVE IntToStr(_)
\* str(i) for i >= 0, as the f-string f'_{i}.nbt' formats it
IntToStr(i) ==
    IF i < 10 THEN <<Digit(i)>> ELSE IntToStr(i \div 10) \o <<Digit(i % 10)>>

InverseSuffix(i) == <<"_">> \o IntToStr(i) \o Ext

RECURSIVE Replace(_, _, _)
\* s.replace(old, new) for a non-empty old: every non-overlapping occurrence,
\* scanning from the left; s itself when old does not occur
Replace(s, old, new) ==
    IF Len(s) < Len(old) THEN s
    ELSE IF SubSeq(s, 1, Len(old)) = old
         THEN new \o Replace(SubSeq(s, Len(old) + 1, Len(s)), old, new)
         ELSE <<s[1]>> \o Replace(Tail(s), old, new)

\* base_filename.replace('.nbt', '_main.nbt')
MainName(base) == Replace(base, Ext, MainSuffix)

\* base_filename.replace('.nbt', f'_{i}.nbt')
InverseName(base, i) == Replace(base, Ext, InverseSuffix(i))

\* base file names handed to generate_connected_conveyors
BaseNames ==
    { <<"c">> \o Ext,
      <<"c">>,
      <<"c">> \o Ext \o Ext,
      <<"a">> \o Ext \o <<"/", "c">>,
      <<"c", ".", "n", "b">> }

----------------------------------------------------------------------------
\* BaseNBT.save and the file system.

NoFiles == [n \in {} |-> {}]

\* self.nbt.save(filename, gzipped=gzipped): writes or overwrites the file
save(d, filename, nbt) == (filename :> nbt) @@ d

----------------------------------------------------------------------------
\* generate_connected_conveyors, one action per statement that calls out.
\* gen is the frame of the call: pc the statement to run next, the locals
\* origin_pos and conn_list (references), base_filename, the loop index i,
\* the instances main_conveyor and inv_conveyor, and the history fields
\* originGiven and connsGiven (the argument values at the call).

GenIdle ==
    [pc |-> "idle", origin_pos |-> None, conn_list |-> <<>>, base |-> <<>>,
     k |-> 0, i |-> 0, main |-> 0, inv |-> 0,
     originGiven |-> <<>>, connsGiven |-> <<>>]

\* The caller builds the containers of the connections argument.
PassConns(h, inp) ==
    LET cs == Meant(inp)
    IN  [heap |-> h \o [j \in 1..Len(cs) |-> [owner |-> "caller", v |-> cs[j]]],
         refs |-> [j \in 1..Len(cs) |-> Len(h) + j]]

\* origin_pos = list(origin) if origin else [0, 0, 0]
GenOriginPos(h, o) ==
    [heap |-> Append(h, [owner |-> "program",
                         v |-> IF Truthy(h, o) THEN h[o].v ELSE <<0, 0, 0>>]),
     ref |-> Len(h) + 1]

\* lines 347-350: the argument normalisation and main_conveyor's construction
GenCall(inp, originArg, base) ==
    LET a == Pass(heap, originArg)
        c == PassConns(a.heap, inp)
        o == GenOriginPos(c.heap, a.ref)
        b == BaseNBT_init(o.heap, o.ref)
        t == create_conveyor_template(lists)
        frame == [GenIdle EXCEPT !.origin_pos = o.ref, !.conn_list = c.refs,
                                 !.base = base,
                                 !.originGiven = GivenOrigin(originArg),
                                 !.connsGiven = Meant(inp)]
    IN  /\ gen.pc = "idle"
        /\ muts = <<>>
        /\ IF ~HasFirst(inp)
           THEN /\ heap' = o.heap
                /\ gen' = [frame EXCEPT !.pc = "failed"]
                /\ last' = Call("generate_connected_conveyors", 0, inp, "IndexError")
                /\ UNCHANGED <<lists, muts>>
           ELSE /\ heap' = b.heap
                /\ lists' = t.lists
                /\ muts' = Append(muts, NewMutator("conveyor", b.ref, t.ref, o.ref,
                                                    o.heap[o.ref].v))
                /\ gen' = [frame EXCEPT !.pc = "add_main", !.k = 1,
                                        !.main = Len(muts) + 1]
                /\ last' = Call("ConveyorNBT", Len(muts) + 1, originArg, "none")
        /\ UNCHANGED <<writes, disk, rel>>

\* lines 351-352: main_conveyor.add_connection(conn), one conn per step
GenAddMain ==
    LET inp == OneCoord(heap[gen.conn_list[gen.k]].v)
    IN  /\ gen.pc = "add_main"
        /\ lists' = AddedLists(gen.main, inp)
        /\ muts' = AddedCalls(muts, gen.main, inp)
        /\ gen' = IF gen.k < Len(gen.conn_list)
                  THEN [gen EXCEPT !.k = @ + 1]
                  ELSE [gen EXCEPT !.pc = "save_main"]
        /\ last' = Call("add_connection", gen.main, inp, "none")
        /\ UNCHANGED <<heap, writes, disk, rel>>

\* the frame after a save that returned: on to the next inverse file, if any
SaveReturned(g) ==
    IF g.i < Len(g.conn_list)
    THEN [g EXCEPT !.pc = "inv_construct", !.i = @ + 1]
    ELSE [g EXCEPT !.pc = "done"]

SaveSwallowed(g) == SaveReturned(g)

\* the frame after a save that raised: nothing catches the error
SaveRaised(g) == [g EXCEPT !.pc = "failed"]

\* line 353: main_conveyor.save(...) returns
GenSaveMain ==
    LET name == MainName(gen.base)
        nbt == lists[muts[gen.main].nbt]
    IN  /\ gen.pc = "save_main"
        /\ disk' = save(disk, name, nbt)
        /\ writes' = Append(writes, [name |-> name, nbt |-> nbt, what |-> 0])
        /\ gen' = SaveReturned(gen)
        /\ last' = Call("save", gen.main, [filename |-> name], "none")
        /\ UNCHANGED <<heap, lists, muts, rel>>

\* line 353: main_conveyor.save(...) raises an I/O error
GenSaveMainFails ==
    /\ gen.pc = "save_main"
    /\ gen' = SaveRaised(gen)
    /\ last' = Call("save", gen.main, [filename |-> MainName(gen.base)], "OSError")
    /\ UNCHANGED <<heap, lists, muts, writes, disk, rel>>

InverseOriginMain(g) == g.origin_pos

\* inverse_origin = conn
InverseOrigin(g) == g.conn_list[g.i]

\* inverse_conn_target = origin_pos
InverseConnTarget(g) == g.origin_pos

\* lines 355-359: inv_conveyor = ConveyorNBT(origin=inverse_origin)
GenInvConstruct ==
    LET o == InverseOrigin(gen)
        b == BaseNBT_init(heap, o)
        t == create_conveyor_template(lists)
    IN  /\ gen.pc = "inv_construct"
        /\ heap' = b.heap
        /\ lists' = t.lists
        /\ muts' = Append(muts, NewMutator("conveyor", b.ref, t.ref, o, heap[o].v))
        /\ gen' = [gen EXCEPT !.pc = "inv_add", !.inv = Len(muts) + 1]
        /\ last' = Call("ConveyorNBT", Len(muts) + 1, [origin |-> o], "none")
        /\ UNCHANGED <<writes, disk, rel>>

\* line 360: inv_conveyor.add_connection(inverse_conn_target)
GenInvAdd ==
    LET inp == OneCoord(heap[InverseConnTarget(gen)].v)
    IN  /\ gen.pc = "inv_add"
        /\ lists' = AddedLists(gen.inv, inp)
        /\ muts' = AddedCalls(muts, gen.inv, inp)
        /\ gen' = [gen EXCEPT !.pc = "inv_save"]
        /\ last' = Call("add_connection", gen.inv, inp, "none")
        /\ UNCHANGED <<heap, writes, disk, rel>>

\* line 361: inv_conveyor.save(...) returns
GenInvSave ==
    LET name == InverseName(gen.base, gen.i)
        nbt == lists[muts[gen.inv].nbt]
    IN  /\ gen.pc = "inv_save"
        /\ disk' = save(disk, name, nbt)
        /\ writes' = Append(writes, [name |-> name, nbt |-> nbt, what |-> gen.i])
        /\ gen' = SaveReturned(gen)
        /\ last' = Call("save", gen.inv, [filename |-> name], "none")
        /\ UNCHANGED <<heap, lists, muts, rel>>

\* line 361: inv_conveyor.save(...) raises an I/O error
GenInvSaveFails ==
    /\ gen.pc = "inv_save"
    /\ gen' = SaveRaised(gen)
    /\ last' = Call("save", gen.inv,
                    [filename |-> InverseName(gen.base, gen.i)], "OSError")
    /\ UNCHANGED <<heap, lists, muts, writes, disk, rel>>

----------------------------------------------------------------------------
\* A call of calculate_relative_pos on arguments of any lengths.

CoordVals == (0 - MaxCoord)..MaxCoord

\* non-empty argument sequences of up to MaxLen components
RelArgs == SeqsUpTo(CoordVals, MaxLen) \ { <<>> }

Relativize ==
    /\ ~rel.done
    /\ rel' = [rel EXCEPT !.out = calculate_relative_pos(rel.pos, rel.origin),
                          !.raised = calculate_relative_pos_raises(rel.pos, rel.origin),
                          !.done = TRUE]
    /\ UNCHANGED <<heap, lists, muts, last, gen, writes, disk>>

----------------------------------------------------------------------------
\* Specifications.

NoCall == Call("none", 0, [none |-> TRUE], "none")

NoRel ==
    [pos |-> <<>>, origin |-> <<>>, pos0 |-> <<>>, origin0 |-> <<>>,
     out |-> <<>>, raised |-> FALSE, done |-> TRUE]

Init ==
    /\ heap = <<>>
    /\ lists = <<>>
    /\ muts = <<>>
    /\ last = NoCall
    /\ gen = GenIdle
    /\ writes = <<>>
    /\ disk = NoFiles
    /\ rel = NoRel

\* one arm and its interaction points
NextArm ==
    \/ \E arg \in OriginArgs(Coords) : Len(muts) < 1 /\ ConstructArm(arg)
    \/ \E m \in DOMAIN muts, t \in TypeStrs, mode \in Modes, pos \in Coords :
          Len(Items(m)) < MaxPoints /\ add_interaction_point(m, t, mode, pos)

SpecArm == Init /\ [][NextArm]_vars

\* one conveyor and its connections
NextConveyor ==
    \/ \E arg \in OriginArgs(Coords) : Len(muts) < 1 /\ ConstructConveyor(arg)
    \/ \E m \in DOMAIN muts, inp \in ConnArgs(Coords, MaxBatch) :
          /\ Len(Items(m)) + Len(Meant(inp)) <= MaxConns
          /\ add_connection(m, inp)

SpecConveyor == Init /\ [][NextConveyor]_vars

\* one call of generate_connected_conveyors
NextGen ==
    \/ \E inp \in ConnArgs(Coords, MaxBatch), o \in OriginArgs(Coords),
          base \in BaseNames : GenCall(inp, o, base)
    \/ GenAddMain
    \/ GenSaveMain
    \/ GenSaveMainFails
    \/ GenInvConstruct
    \/ GenInvAdd
    \/ GenInvSave
    \/ GenInvSaveFails

SpecGen == Init /\ [][NextGen]_vars

RECURSIVE CallsMade(_)
\* the number of append calls made so far through the instances 1..n
CallsMade(n) == IF n = 0 THEN 0 ELSE Len(muts[n].calls) + CallsMade(n - 1)

\* several instances, or one generate call, with a caller that keeps writing
\* to the containers it passed in
NextAlias ==
    \/ \E arg \in OriginArgs(FewCoords) :
          Len(muts) < MaxMutators /\ ConstructArm(arg)
    \/ \E arg \in OriginArgs(FewCoords) :
          Len(muts) < MaxMutators /\ ConstructConveyor(arg)
    \/ \E m \in DOMAIN muts, pos \in FewCoords :
          /\ gen.pc = "idle"
          /\ CallsMade(Len(muts)) < MaxCalls
          /\ add_interaction_point(m, "create:depot", "TAKE", pos)
    \/ \E m \in DOMAIN muts, pos \in FewCoords :
          /\ gen.pc = "idle"
          /\ CallsMade(Len(muts)) < MaxCalls
          /\ add_connection(m, OneCoord(pos))
    \/ \E b \in DOMAIN heap, v \in FewCoords : CallerMutate(b, v)
    \/ \E inp \in ConnArgs(FewCoords, MaxBatch), o \in OriginArgs(FewCoords) :
          GenCall(inp, o, <<"c">> \o Ext)
    \/ GenAddMain
    \/ GenSaveMain
    \/ GenInvConstruct
    \/ GenInvAdd
    \/ GenInvSave

SpecAlias == Init /\ [][NextAlias]_vars

InitRel ==
    /\ heap = <<>>
    /\ lists = <<>>
    /\ muts = <<>>
    /\ last = NoCall
    /\ gen = GenIdle
    /\ writes = <<>>
    /\ disk = NoFiles
    /\ \E p \in RelArgs, o \in RelArgs :
          rel = [pos |-> p, origin |-> o, pos0 |-> p, origin0 |-> o,
                 out |-> <<>>, raised |-> FALSE, done |-> FALSE]

NextRel == Relativize

SpecRel == InitRel /\ [][NextRel]_vars

----------------------------------------------------------------------------
\* Properties.

\* the component-wise difference of two triples, written out
Minus(p, o) == <<p[1] - o[1], p[2] - o[2], p[3] - o[3]>>

AddOps == { "add_interaction_point", "add_connection" }

\* the entry an append call with argument a leaves in the list of an
\* instance of the given kind whose origin is o
Entry(kind, a, o) ==
    IF kind = "arm"
    THEN [Type |-> a.type, Mode |-> a.mode, Pos |-> Minus(a.pos, o)]
    ELSE Minus(a, o)

IsPrefix(s, t) == Len(s) <= Len(t) /\ SubSeq(t, 1, Len(s)) = s

EndsWith(s, suffix) ==
    Len(s) >= Len(suffix) /\ SubSeq(s, Len(s) - Len(suffix) + 1, Len(s)) = suffix

\* the name with only a trailing ".nbt" replaced by suffix, or with suffix
\* appended when there is no trailing ".nbt"
SuffixReplaced(base, suffix) ==
    IF EndsWith(base, Ext)
    THEN SubSeq(base, 1, Len(base) - Len(Ext)) \o suffix
    ELSE base \o suffix

\* C2: the main structure is saved to base_filename with only its trailing
\* ".nbt" replaced by "_main.nbt" (appended when there is none), inverse
\* structure i to the name formed the same way with "_{i}.nbt".
C2_FileNames ==
    \A j \in 1..Len(writes) :
        writes[j].name =
           SuffixReplaced(gen.base,
                          IF j = 1 THEN MainSuffix ELSE InverseSuffix(j - 1))

\* C3: the InteractionPoints list of an arm has one entry per accepted call,
\* in call order, entry k being {Type, Mode, Pos = pos - origin} of the k-th
\* call; a step appends at most one entry at the end and changes no earlier
\* entry.
C3_InteractionPointsInCallOrder ==
    /\ [](\A m \in DOMAIN muts :
             muts[m].kind = "arm" =>
                Items(m) = [k \in 1..Len(muts[m].calls) |->
                               [Type |-> muts[m].calls[k].type,
                                Mode |-> muts[m].calls[k].mode,
                                Pos |-> Minus(muts[m].calls[k].pos, muts[m].given)]])
    /\ [][\A m \in DOMAIN muts :
             /\ IsPrefix(Items(m), Items(m)')
             /\ Len(Items(m)') <= Len(Items(m)) + 1]_vars

C3_Witness ==
    \E m \in DOMAIN muts :
        /\ muts[m].kind = "arm"
        /\ muts[m].given # <<0, 0, 0>>
        /\ Len(Items(m)) = 2
        /\ Items(m)[1] # Items(m)[2]
        /\ Items(m)[2].Pos[1] < 0

\* C4: a call of add_interaction_point with a mode other than "TAKE" or
\* "DEPOSIT" raises ValueError and leaves the lists, the instances and the
\* origins as they were.
C4_InvalidModeAppendsNothing ==
    [][(last'.op = "add_interaction_point"
          /\ last'.arg.mode \notin { "TAKE", "DEPOSIT" })
       => (last'.exc = "ValueError" /\ UNCHANGED <<heap, lists, muts>>)]_vars

C4_Witness ==
    /\ last.op = "add_interaction_point"
    /\ last.exc = "ValueError"
    /\ last.arg.mode = "take"
    /\ Len(Items(last.m)) = 1

\* C5: a call of add_connection with one triple p appends the one entry
\* p - o, with a sequence p_1..p_n the n entries p_1 - o, ..., p_n - o in
\* that order, after the entries of earlier calls, duplicates included.
C5_ConnectionsAppended ==
    /\ [](\A m \in DOMAIN muts :
             muts[m].kind = "conveyor" =>
                Items(m) = [k \in 1..Len(muts[m].calls) |->
                               Minus(muts[m].calls[k], muts[m].given)])
    /\ [][\A m \in DOMAIN muts :
             (last'.op = "add_connection" /\ last'.m = m /\ last'.exc = "none")
             => LET ps == IF last'.arg.shape = "coord"
                          THEN <<last'.arg.c>> ELSE last'.arg.cs
                IN  Items(m)' = Items(m) \o
                       [i \in 1..Len(ps) |-> Minus(ps[i], Origin(m))]]_vars

C5_Witness ==
    \E m \in DOMAIN muts :
        /\ muts[m].kind = "conveyor"
        /\ muts[m].given # <<0, 0, 0>>
        /\ Len(Items(m)) = 3
        /\ Items(m)[2] = Items(m)[3]
        /\ Items(m)[1] # Items(m)[2]
        /\ last.op = "add_connection"
        /\ last.arg.shape = "list"
        /\ Len(last.arg.cs) = 2

\* C6: when pos and origin have mismatched lengths (so do not both have
\* length 3), calculate_relative_pos raises an error and returns no shortened
\* result.
C6_MismatchedLengthsRaise ==
    (rel.done /\ Len(rel.pos0) # Len(rel.origin0)
       /\ ~(Len(rel.pos0) = 3 /\ Len(rel.origin0) = 3))
    => (rel.raised /\ rel.out = <<>>)

\* C7: for triples pos and origin, calculate_relative_pos returns the three
\* differences pos[i] - origin[i], negative ones included, and leaves both
\* arguments as they were.
C7_RelativePos ==
    (rel.done /\ Len(rel.pos0) = 3 /\ Len(rel.origin0) = 3)
    => /\ rel.out = <<rel.pos0[1] - rel.origin0[1],
                      rel.pos0[2] - rel.origin0[2],
                      rel.pos0[3] - rel.origin0[3]>>
       /\ ~rel.raised
       /\ rel.pos = rel.pos0
       /\ rel.origin = rel.origin0

C7_Witness ==
    /\ rel.done
    /\ Len(rel.pos0) = 3
    /\ Len(rel.origin0) = 3
    /\ rel.out[1] < 0
    /\ rel.out[2] > 0
    /\ rel.out[3] = 0

\* C8: two instances never share a list tag; an instance no append went
\* through holds the template of its kind, equal to that of every other such
\* instance of the kind; and each instance's list holds the entries of the
\* calls made through that instance and no others.
C8_TemplatesNotShared ==
    \A m1 \in DOMAIN muts :
        /\ \A m2 \in DOMAIN muts : m1 # m2 => muts[m1].nbt # muts[m2].nbt
        /\ muts[m1].calls = <<>> =>
              lists[muts[m1].nbt] =
                 IF muts[m1].kind = "arm" THEN ArmTemplate ELSE ConveyorTemplate
        /\ Len(Items(m1)) = Len(muts[m1].calls)
        /\ \A k \in 1..Len(Items(m1)) :
              Items(m1)[k] = Entry(muts[m1].kind, muts[m1].calls[k], Origin(m1))

C8_Witness ==
    \E m1 \in DOMAIN muts, m2 \in DOMAIN muts :
        /\ m1 # m2
        /\ gen.pc = "idle"
        /\ muts[m1].kind = muts[m2].kind
        /\ Len(Items(m1)) = 1
        /\ Len(Items(m2)) = 1
        /\ Items(m1) # Items(m2)

\* C9: the origin an instance subtracts is the value it was constructed with
\* ((0,0,0) when none was given), whatever the caller has stored since into
\* the container it passed; every append step subtracts that value. The
\* instances generate_connected_conveyors builds are among them: the main one
\* is constructed with the call's origin, inverse i with c_i.
C9_OriginCopied ==
    /\ [](\A m \in DOMAIN muts : Origin(m) = muts[m].given)
    /\ [](gen.main # 0 => muts[gen.main].given = gen.originGiven)
    /\ [][\A m \in DOMAIN muts :
             (last'.op \in AddOps /\ last'.m = m /\ last'.exc = "none"
                /\ Len(Items(m)') = Len(Items(m)) + 1)
             => Items(m)'[Len(Items(m)')] =
                   Entry(muts[m].kind,
                         IF muts[m].kind = "arm" THEN last'.arg ELSE last'.arg.c,
                         muts[m].given)]_vars

C9_Witness ==
    \E m \in DOMAIN muts :
        /\ gen.pc = "idle"
        /\ muts[m].passed # None
        /\ heap[muts[m].passed].owner = "caller"
        /\ heap[muts[m].passed].v # muts[m].given
        /\ last.op \in AddOps
        /\ last.m = m
        /\ last.exc = "none"

\* C10: the files are written in the order main, inverse 1, ..., inverse n;
\* a save that raises ends the call with that error, after it nothing more
\* is written, and what was written before stays on disk: no file is removed,
\* and a file holds what was last saved under its name.
C10_WritesInOrderNoRollback ==
    /\ [](\A j \in 1..Len(writes) :
             /\ writes[j].what = j - 1
             /\ writes[j].name \in DOMAIN disk
             /\ (\A k \in (j + 1)..Len(writes) : writes[k].name # writes[j].name)
                => disk[writes[j].name] = writes[j].nbt)
    /\ [][/\ IsPrefix(writes, writes')
          /\ Len(writes') <= Len(writes) + 1
          /\ \A f \in DOMAIN disk : f \in DOMAIN disk'
          /\ gen.pc = "failed" => UNCHANGED <<writes, disk, gen>>
          /\ (last'.op = "save" /\ last'.exc = "OSError" /\ gen.pc # "failed")
             => (gen'.pc = "failed" /\ UNCHANGED <<writes, disk>>)]_vars

C10_Witness ==
    /\ gen.pc = "failed"
    /\ last.exc = "OSError"
    /\ Len(gen.conn_list) = 2
    /\ Len(writes) = 2
    /\ Cardinality(DOMAIN disk) = 2

====
